---- MODULE Spec2Model ----
(***************************************************************************)
(* Conway's Game of Life, GameOfLife.py: the classes Cell and Board, the   *)
(* operations Board.__init__, set_cell, get_living_neighbors, check_rules, *)
(* make_random_board and the generation loop of Board.run.                 *)
(*                                                                         *)
(* A Board is board[y][x], a list of `height` rows of `width` Cell        *)
(* objects.  A Cell object carries its own coordinate (x, y) next to       *)
(* alive, will_die and will_revive; the coordinate a cell carries and the  *)
(* place it is stored at are two different things in the code, and the     *)
(* model keeps both.  Python object identity (`c != cell`, no __eq__ is    *)
(* defined) is modelled by the place an object is stored at: every object  *)
(* is stored at one place at most, so two stored objects are the same      *)
(* object iff their places are equal.                                      *)
(***************************************************************************)
EXTENDS Integers, Sequences, FiniteSets, TLC

\* Bounds of the model.
MaxWidth == 3
MaxHeight == 2
MaxSets == 4
MaxGen == 10
MaxSlack == 1
MaxFewSets == 1

VARIABLES
    width,      \* Board.width
    height,     \* Board.height
    board,      \* Board.board: board[y][x] is a Cell record
    pc,         \* where the program is: "new", "failed", "ready", or inside run
    cur,        \* run: index of the next cell of the scan in progress (y * width + x)
    old_hash,   \* run: the text whose digest old_hash holds
    prev,       \* history: alive[y][x] when old_hash was taken
    gens,       \* history: generations completed by run
    ndraw,      \* history: number of draw() calls made by run
    started,    \* history: generations begun by run (old_hash taken)
    shown,      \* history: the text of the last draw() of run
    written,    \* history: the places <<x, y>> a set_cell call has stored into
    args,       \* history: the arguments Board(...) was called with
    ret,        \* the last call made on the board and how it ended
    b,          \* the module-level name b (GameOfLife.py:274)
    rand        \* history: the arguments and draws of make_random_board

vars == <<width, height, board, pc, cur, old_hash, prev, gens, ndraw, started,
          shown, written, args, ret, b, rand>>

-----------------------------------------------------------------------------
(* Cell *)

Cell(x, y, alive) ==
    [x |-> x, y |-> y, alive |-> alive, will_die |-> FALSE, will_revive |-> FALSE]

revive(c) == [c EXCEPT !.alive = TRUE, !.will_die = FALSE, !.will_revive = FALSE]

\* Mutant of kill: the intent flags are left as they are.
killKeepsIntent(c) == [c EXCEPT !.alive = FALSE]

kill(c) == [c EXCEPT !.alive = FALSE, !.will_die = FALSE, !.will_revive = FALSE]

\* bcolors.OKGREEN, bcolors.ENDC: escape sequences, one element per character.
OKGREEN == <<"ESC", "[", "9", "2", "m">>

ENDC == <<"ESC", "[", "0", "m">>

\* Mutant of CellRepr: a living cell prints like a dead one.
CellReprBlank(c) == IF c.alive THEN <<" ">> ELSE <<" ">>

\* Cell.__repr__
CellRepr(c) == IF c.alive THEN OKGREEN \o <<"*">> \o ENDC ELSE <<" ">>

-----------------------------------------------------------------------------
(* Python list indexing *)

\* lst[i] on a list of length n is defined for -n <= i < n, else IndexError.
PyValid(i, n) == -n <= i /\ i < n

\* The element lst[i] denotes: negative indices count from the end.
PyIndex(i, n) == IF i < 0 THEN n + i ELSE i

\* The identity of a Cell object that is not stored in the board.
NotStored == << >>

-----------------------------------------------------------------------------
(* Board *)

\* Mutant of NewRows: every cell is built with the coordinate of its place.
NewRowsPlaced(w, h) == [y \in 0..(h - 1) |-> [x \in 0..(w - 1) |-> Cell(x, y, FALSE)]]

\* The rows built by Board.__init__: every cell is Cell(), i.e. Cell(0, 0, False).
NewRows(w, h) == [y \in 0..(h - 1) |-> [x \in 0..(w - 1) |-> Cell(0, 0, FALSE)]]

\* Mutant of BoardInit: the two loop ranges exchanged (width rows of height cells).
BoardInitTransposed(w, h) ==
    IF w < 0 \/ h < 0
    THEN [raised |-> "ValueError", width |-> 0, height |-> 0, board |-> << >>]
    ELSE [raised |-> "", width |-> w, height |-> h, board |-> NewRows(h, w)]

\* Board.__init__(width, height)
BoardInit(w, h) ==
    IF w < 0 \/ h < 0
    THEN [raised |-> "ValueError", width |-> 0, height |-> 0, board |-> << >>]
    ELSE [raised |-> "", width |-> w, height |-> h, board |-> NewRows(w, h)]

RECURSIVE Dashes(_)
\* for j in range(self.width): ret_s += '--'
Dashes(w) == IF w <= 0 THEN << >> ELSE <<"-", "-">> \o Dashes(w - 1)

RECURSIVE RowCells(_, _, _)
\* for j in range(self.width): ret_s += '|'; ret_s += str(self.board[i][j])
RowCells(row, j, w) ==
    IF j >= w THEN << >> ELSE <<"|">> \o CellRepr(row[j]) \o RowCells(row, j + 1, w)

RECURSIVE RowsRepr(_, _, _, _)
\* the body of the "Draw board" loop, for rows i .. height-1
RowsRepr(bd, i, w, h) ==
    IF i >= h THEN << >>
    ELSE RowCells(bd[i], 0, w) \o <<"|", "\n">> \o Dashes(w) \o <<"\n">>
         \o RowsRepr(bd, i + 1, w, h)

\* Board.__repr__: the text, one element per character, without its last character.
BoardRepr(bd, w, h) ==
    LET ret_s == Dashes(w) \o <<"\n">> \o RowsRepr(bd, 0, w, h)
    IN  SubSeq(ret_s, 1, Len(ret_s) - 1)

\* Board.set_cell(cell): self.board[cell.y][cell.x] = cell
SetCellOp(bd, w, h, cell) ==
    IF PyValid(cell.y, h) /\ PyValid(cell.x, w)
    THEN [raised |-> "",
          board |-> [bd EXCEPT ![PyIndex(cell.y, h)][PyIndex(cell.x, w)] = cell]]
    ELSE [raised |-> "IndexError", board |-> bd]

\* The 3 x 3 window scanned by get_living_neighbors, in scan order.
Window(cx, cy) ==
    [k \in 1..9 |-> <<cx - 1 + ((k - 1) % 3), cy - 1 + ((k - 1) \div 3)>>]

\* Mutant of GetLivingNeighbors: the test `c != cell` left out.
GetLivingNeighborsWithSelf(bd, w, h, cell, at) ==
    LET Keep(p) ==
            /\ p[1] < w /\ p[1] >= 0 /\ p[2] < h /\ p[2] >= 0
            /\ bd[p[2]][p[1]].alive
    IN  SelectSeq(Window(cell.x, cell.y), Keep)

\* Board.get_living_neighbors(cell): the places <<x, y>> of the cells it returns.
\* `at` is the place the argument object is stored at, or NotStored.
GetLivingNeighbors(bd, w, h, cell, at) ==
    LET Keep(p) ==
            /\ p[1] < w /\ p[1] >= 0 /\ p[2] < h /\ p[2] >= 0
            /\ bd[p[2]][p[1]].alive
            /\ p # at
    IN  SelectSeq(Window(cell.x, cell.y), Keep)

\* Mutant of CheckRules: underpopulation sets the wrong intent flag.
CheckRulesWrongFlag(bd, w, h, cell, at) ==
    LET num_neighbors == Len(GetLivingNeighbors(bd, w, h, cell, at))
        ty == PyIndex(cell.y, h)
        tx == PyIndex(cell.x, w)
    IN  IF num_neighbors < 2 THEN [bd EXCEPT ![ty][tx].will_revive = TRUE]
        ELSE IF num_neighbors > 3 THEN [bd EXCEPT ![ty][tx].will_die = TRUE]
        ELSE IF num_neighbors = 3 THEN [bd EXCEPT ![ty][tx].will_revive = TRUE]
        ELSE bd

\* Mutant of CheckRules: alive is written at once (the assignments the source
\* keeps as comments) instead of the intent flags.
CheckRulesInPlace(bd, w, h, cell, at) ==
    LET num_neighbors == Len(GetLivingNeighbors(bd, w, h, cell, at))
        ty == PyIndex(cell.y, h)
        tx == PyIndex(cell.x, w)
    IN  IF num_neighbors < 2 THEN [bd EXCEPT ![ty][tx].alive = FALSE]
        ELSE IF num_neighbors > 3 THEN [bd EXCEPT ![ty][tx].alive = FALSE]
        ELSE IF num_neighbors = 3 THEN [bd EXCEPT ![ty][tx].alive = TRUE]
        ELSE bd

\* Mutant of CheckRules: overpopulation from 3 neighbours on (> 2 for > 3).
CheckRulesOffByOne(bd, w, h, cell, at) ==
    LET num_neighbors == Len(GetLivingNeighbors(bd, w, h, cell, at))
        ty == PyIndex(cell.y, h)
        tx == PyIndex(cell.x, w)
    IN  IF num_neighbors < 2 THEN [bd EXCEPT ![ty][tx].will_die = TRUE]
        ELSE IF num_neighbors > 2 THEN [bd EXCEPT ![ty][tx].will_die = TRUE]
        ELSE IF num_neighbors = 3 THEN [bd EXCEPT ![ty][tx].will_revive = TRUE]
        ELSE bd

\* Board.check_rules(cell), debug = False
CheckRules(bd, w, h, cell, at) ==
    LET num_neighbors == Len(GetLivingNeighbors(bd, w, h, cell, at))
        ty == PyIndex(cell.y, h)
        tx == PyIndex(cell.x, w)
    IN  IF num_neighbors < 2 THEN [bd EXCEPT ![ty][tx].will_die = TRUE]
        ELSE IF num_neighbors > 3 THEN [bd EXCEPT ![ty][tx].will_die = TRUE]
        ELSE IF num_neighbors = 3 THEN [bd EXCEPT ![ty][tx].will_revive = TRUE]
        ELSE bd

\* Mutant of ApplyCell: will_die is tested before will_revive.
ApplyCellDieFirst(bd, x, y) ==
    IF bd[y][x].will_die THEN [bd EXCEPT ![y][x] = kill(bd[y][x])]
    ELSE IF bd[y][x].will_revive THEN [bd EXCEPT ![y][x] = revive(bd[y][x])]
    ELSE bd

\* run, "apply rules to the board", for the cell stored at (x, y)
ApplyCell(bd, x, y) ==
    IF bd[y][x].will_revive THEN [bd EXCEPT ![y][x] = revive(bd[y][x])]
    ELSE IF bd[y][x].will_die THEN [bd EXCEPT ![y][x] = kill(bd[y][x])]
    ELSE bd

\* hashlib.md5(text).hexdigest() == hashlib.md5(text').hexdigest(): the digest is
\* taken to be collision-free on the texts compared, so digests agree iff texts do.
SameDigest(text1, text2) == text1 = text2

-----------------------------------------------------------------------------
(* State *)

Alive(bd, w, h) == [y \in 0..(h - 1) |-> [x \in 0..(w - 1) |-> bd[y][x].alive]]

Call(op, x, y, at, raised, value) ==
    [op |-> op, x |-> x, y |-> y, at |-> at, raised |-> raised, value |-> value]

NoCall == Call("", 0, 0, NotStored, "", << >>)

\* b names the board itself (b = Board(x, y); b.run(): GameOfLife.py:274-285).
BIsSelf == [self |-> TRUE, width |-> 0, height |-> 0, board |-> << >>]

NoRand == [called |-> FALSE, p |-> 0, r |-> << >>]

Init ==
    /\ width = 0 /\ height = 0 /\ board = << >>
    /\ pc = "new" /\ cur = 0 /\ old_hash = << >> /\ prev = << >>
    /\ gens = 0 /\ ndraw = 0 /\ started = 0 /\ shown = << >> /\ written = {}
    /\ args = <<0, 0>> /\ ret = NoCall /\ b = BIsSelf /\ rand = NoRand

\* B = Board(w, h)
Construct(w, h) ==
    /\ pc = "new"
    /\ LET r == BoardInit(w, h)
       IN  /\ width' = r.width /\ height' = r.height /\ board' = r.board
           /\ pc' = IF r.raised = "" THEN "ready" ELSE "failed"
           /\ ret' = Call("Board", w, h, NotStored, r.raised, << >>)
    /\ args' = <<w, h>>
    /\ UNCHANGED <<cur, old_hash, prev, gens, ndraw, started, shown, written, b, rand>>

\* B.set_cell(Cell(x, y, alive=a))
SetCell(x, y, a) ==
    /\ pc = "ready"
    /\ LET r == SetCellOp(board, width, height, Cell(x, y, a))
           place == <<PyIndex(x, width), PyIndex(y, height)>>
       IN  /\ r.raised = "" => Cardinality(written \cup {place}) <= MaxSets
           /\ board' = r.board
           /\ written' = IF r.raised = "" THEN written \cup {place} ELSE written
           /\ ret' = Call("set_cell", x, y, NotStored, r.raised, << >>)
    /\ UNCHANGED <<width, height, pc, cur, old_hash, prev, gens, ndraw, started, shown,
                   args, b, rand>>

\* B.run(): entered; sleep(delay)
RunCall ==
    /\ pc = "ready"
    /\ pc' = "hash"
    /\ ret' = Call("run", 0, 0, NotStored, "", << >>)
    /\ UNCHANGED <<width, height, board, cur, old_hash, prev, gens, ndraw, started, shown,
                   written, args, b, rand>>

\* run: old_hash = hashlib.md5(self.__repr__()...)
TakeHash ==
    /\ pc = "hash"
    /\ old_hash' = BoardRepr(board, width, height)
    /\ prev' = Alive(board, width, height)
    /\ cur' = 0
    /\ started' = started + 1
    /\ pc' = IF width * height = 0 THEN "draw" ELSE "check"
    /\ UNCHANGED <<width, height, board, gens, ndraw, shown, written, args, ret,
                   b, rand>>

\* run: one iteration of "scan board": cell = self.board[y][x]; self.check_rules(cell)
CheckStep ==
    /\ pc = "check"
    /\ LET y == cur \div width
           x == cur % width
       IN  board' = CheckRules(board, width, height, board[y][x], <<x, y>>)
    /\ IF cur + 1 = width * height
       THEN cur' = 0 /\ pc' = "apply"
       ELSE cur' = cur + 1 /\ pc' = "check"
    /\ UNCHANGED <<width, height, old_hash, prev, gens, ndraw, started, shown, written,
                   args, ret, b, rand>>

\* run: one iteration of "apply rules to the board"
ApplyStep ==
    /\ pc = "apply"
    /\ board' = ApplyCell(board, cur % width, cur \div width)
    /\ IF cur + 1 = width * height
       THEN cur' = 0 /\ pc' = "draw"
       ELSE cur' = cur + 1 /\ pc' = "apply"
    /\ UNCHANGED <<width, height, old_hash, prev, gens, ndraw, started, shown, written,
                   args, ret, b, rand>>

\* Mutant of Draw: the text emitted is the one taken before the generation.
DrawStale ==
    /\ pc = "draw"
    /\ shown' = old_hash
    /\ ndraw' = ndraw + 1
    /\ gens' = gens + 1
    /\ pc' = "compare"
    /\ UNCHANGED <<width, height, board, cur, old_hash, prev, started, written, args, ret,
                   b, rand>>

\* run: self.draw()
Draw ==
    /\ pc = "draw"
    /\ shown' = BoardRepr(board, width, height)
    /\ ndraw' = ndraw + 1
    /\ gens' = gens + 1
    /\ pc' = "compare"
    /\ UNCHANGED <<width, height, board, cur, old_hash, prev, started, written, args, ret,
                   b, rand>>

\* run: new_hash = ...; if old_hash.hexdigest() == new_hash.hexdigest(): break
Compare ==
    /\ pc = "compare"
    /\ IF SameDigest(old_hash, BoardRepr(board, width, height))
       THEN pc' = "done"
       ELSE gens < MaxGen /\ pc' = "hash"
    /\ UNCHANGED <<width, height, board, cur, old_hash, prev, gens, ndraw, started, shown,
                   written, args, ret, b, rand>>

\* B.get_living_neighbors(cell), for an argument object stored at place `at`
\* (or not stored in the board at all: at = NotStored)
GetLivingNeighborsCall(cell, at) ==
    /\ pc = "ready"
    /\ ret' = Call("get_living_neighbors", cell.x, cell.y, at, "",
                   GetLivingNeighbors(board, width, height, cell, at))
    /\ UNCHANGED <<width, height, board, pc, cur, old_hash, prev, gens, ndraw, started,
                   shown, written, args, b, rand>>

\* Probabilities and draws in halves: p in {0.0, 0.5, 1.0}, r in {0.0, 0.5}.
PValues == {0, 1, 2}

RValues == {0, 1}

RECURSIVE SeedFrom(_, _, _, _, _, _, _, _)
\* make_random_board: the iterations k, k+1, ... of
\*   for i in range(self.width): for j in range(self.height)
\* writing into the board (tgt, tw, th) that the global name b denotes.
SeedFrom(k, tgt, tw, th, p, r, w, h) ==
    IF k >= w * h THEN [raised |-> "", board |-> tgt]
    ELSE LET i == k \div h
             j == k % h
             res == SetCellOp(tgt, tw, th, Cell(i, j, TRUE))
         IN  IF r[<<i, j>>] < p
             THEN IF res.raised # "" THEN [raised |-> res.raised, board |-> tgt]
                  ELSE SeedFrom(k + 1, res.board, tw, th, p, r, w, h)
             ELSE SeedFrom(k + 1, tgt, tw, th, p, r, w, h)

\* Board.make_random_board(p), called on the board (self), with draws r
MakeRandomBoard(p, r) ==
    /\ pc = "ready"
    /\ rand' = [called |-> TRUE, p |-> p, r |-> r]
    /\ IF b.self
       THEN LET res == SeedFrom(0, board, width, height, p, r, width, height)
            IN  /\ board' = res.board
                /\ written' = written \cup {c \in DOMAIN r : r[c] < p}
                /\ ret' = Call("make_random_board", 0, 0, NotStored, res.raised, << >>)
                /\ b' = b
       ELSE LET res == SeedFrom(0, b.board, b.width, b.height, p, r, width, height)
            IN  /\ b' = [b EXCEPT !.board = res.board]
                /\ ret' = Call("make_random_board", 0, 0, NotStored, res.raised, << >>)
                /\ UNCHANGED <<board, written>>
    /\ UNCHANGED <<width, height, pc, cur, old_hash, prev, gens, ndraw, started, shown, args>>

-----------------------------------------------------------------------------
(* Specifications *)

\* Construction, in-range set_cell calls, then run.
Next ==
    \/ \E w \in -1..MaxWidth, h \in -1..MaxHeight : Construct(w, h)
    \/ \E x \in 0..(width - 1), y \in 0..(height - 1), a \in BOOLEAN : SetCell(x, y, a)
    \/ RunCall
    \/ TakeHash
    \/ CheckStep
    \/ ApplyStep
    \/ Draw
    \/ Compare

Spec == Init /\ [][Next]_vars

\* The generation loop alone.
NextRun ==
    \/ RunCall
    \/ TakeHash
    \/ CheckStep
    \/ ApplyStep
    \/ Draw
    \/ Compare

RECURSIVE PlaceAll(_, _, _, _)
\* B.set_cell(c) for every c of `cells`, in order
PlaceAll(bd, w, h, cells) ==
    IF cells = << >> THEN bd
    ELSE PlaceAll(SetCellOp(bd, w, h, Head(cells)).board, w, h, Tail(cells))

\* The state after B = Board(w, h) and B.set_cell(c) for every c of `cells`.
Populated(w, h, cells) ==
    /\ width = w /\ height = h
    /\ board = PlaceAll(NewRows(w, h), w, h, cells)
    /\ written = {<<cells[k].x, cells[k].y>> : k \in DOMAIN cells}
    /\ ret = Call("set_cell", cells[Len(cells)].x, cells[Len(cells)].y, NotStored, "", << >>)
    /\ args = <<w, h>>
    /\ pc = "ready" /\ cur = 0 /\ old_hash = << >> /\ prev = << >>
    /\ gens = 0 /\ ndraw = 0 /\ started = 0 /\ shown = << >> /\ b = BIsSelf /\ rand = NoRand

\* The 2 x 2 block whose top-left cell is (ax, ay).
BlockCells(ax, ay) ==
    <<Cell(ax, ay, TRUE), Cell(ax + 1, ay, TRUE),
      Cell(ax, ay + 1, TRUE), Cell(ax + 1, ay + 1, TRUE)>>

\* A grid of at least 4 x 4 holding one block, and possibly one more cell
\* written dead by set_cell.
InitBlock ==
    \E w \in 4..(4 + MaxSlack), h \in 4..(4 + MaxSlack) :
      \E ax \in 0..(w - 2), ay \in 0..(h - 2) :
        \/ Populated(w, h, BlockCells(ax, ay))
        \/ \E dx \in 0..(w - 1), dy \in 0..(h - 1) :
             /\ ~(dx \in {ax, ax + 1} /\ dy \in {ay, ay + 1})
             /\ Populated(w, h, <<Cell(dx, dy, FALSE)>> \o BlockCells(ax, ay))

SpecBlock == InitBlock /\ [][NextRun]_vars

\* The centred horizontal blinker of a w x h grid.
BlinkerCells(w, h) ==
    <<Cell(((w - 1) \div 2) - 1, (h - 1) \div 2, TRUE),
      Cell((w - 1) \div 2, (h - 1) \div 2, TRUE),
      Cell(((w - 1) \div 2) + 1, (h - 1) \div 2, TRUE)>>

\* A grid of at least 5 x 5 holding exactly the blinker, every other cell
\* untouched since construction.
InitBlinker ==
    \E w \in 5..(5 + MaxSlack), h \in 5..(5 + MaxSlack) :
      Populated(w, h, BlinkerCells(w, h))

SpecBlinker == InitBlinker /\ [][NextRun]_vars

\* Construction, in-range set_cell calls, and get_living_neighbors with an
\* in-range coordinate: the argument is a stored Cell object or a fresh one.
NextCalls ==
    \/ \E w \in -1..MaxWidth, h \in -1..MaxHeight : Construct(w, h)
    \/ \E x \in 0..(width - 1), y \in 0..(height - 1), a \in BOOLEAN : SetCell(x, y, a)
    \/ \E x \in 0..(width - 1), y \in 0..(height - 1) :
         GetLivingNeighborsCall(board[y][x], <<x, y>>)
    \/ \E x \in 0..(width - 1), y \in 0..(height - 1) :
         GetLivingNeighborsCall(Cell(x, y, FALSE), NotStored)

SpecCalls == Init /\ [][NextCalls]_vars

\* Construction, then set_cell and get_living_neighbors with any coordinate up
\* to one step outside the grid (at most MaxFewSets + 1 places written).
NextBounds ==
    \/ \E w \in -1..MaxWidth, h \in -1..MaxHeight : Construct(w, h)
    \/ /\ Cardinality(written) <= MaxFewSets
       /\ \E x \in -1..width, y \in -1..height, a \in BOOLEAN : SetCell(x, y, a)
    \/ \E x \in -1..width, y \in -1..height :
         GetLivingNeighborsCall(Cell(x, y, FALSE), NotStored)

SpecBounds == Init /\ [][NextBounds]_vars

\* The global b is the board itself (as in the script), or another, fresh Board.
InitSeed ==
    /\ width = 0 /\ height = 0 /\ board = << >>
    /\ pc = "new" /\ cur = 0 /\ old_hash = << >> /\ prev = << >>
    /\ gens = 0 /\ ndraw = 0 /\ started = 0 /\ shown = << >> /\ written = {}
    /\ args = <<0, 0>> /\ ret = NoCall /\ rand = NoRand
    /\ \/ b = BIsSelf
       \/ \E w \in 1..MaxWidth, h \in 1..MaxHeight :
            b = [self |-> FALSE, width |-> w, height |-> h, board |-> NewRows(w, h)]

\* Construction, at most MaxFewSets in-range set_cell calls, one seeding.
NextSeed ==
    \/ \E w \in -1..MaxWidth, h \in -1..MaxHeight : Construct(w, h)
    \/ /\ Cardinality(written) < MaxFewSets
       /\ ~rand.called
       /\ \E x \in 0..(width - 1), y \in 0..(height - 1), a \in BOOLEAN : SetCell(x, y, a)
    \/ /\ ~rand.called
       /\ \E p \in PValues :
            \E r \in [(0..(width - 1)) \X (0..(height - 1)) -> RValues] :
              MakeRandomBoard(p, r)

SpecSeed == InitSeed /\ [][NextSeed]_vars

-----------------------------------------------------------------------------
(* Properties *)

InGrid(x, y) == 0 <= x /\ x < width /\ 0 <= y /\ y < height

\* The in-bounds Moore neighbours of place (x, y).
Moore(x, y) ==
    {p \in ((x - 1)..(x + 1)) \X ((y - 1)..(y + 1)) : InGrid(p[1], p[2]) /\ p # <<x, y>>}

\* The number of Moore neighbours of (x, y) alive when the generation began.
LiveBefore(x, y) == Cardinality({p \in Moore(x, y) : prev[p[2]][p[1]]})

\* The places alive now.
LivingNow == {p \in (0..(width - 1)) \X (0..(height - 1)) : board[p[2]][p[1]].alive}

Range(s) == {s[k] : k \in DOMAIN s}

\* C1: a cell dead when a generation begins is alive after the generation iff
\* exactly 3 of its in-bounds Moore neighbours were alive when it began.
C1_DeadCellRule ==
    pc = "compare" =>
        \A x \in 0..(width - 1), y \in 0..(height - 1) :
            ~prev[y][x] => (board[y][x].alive <=> LiveBefore(x, y) = 3)

HorizontalBlinker ==
    {<<((width - 1) \div 2) + d, (height - 1) \div 2>> : d \in {-1, 0, 1}}

VerticalBlinker ==
    {<<(width - 1) \div 2, ((height - 1) \div 2) + d>> : d \in {-1, 0, 1}}

\* C3: from the centred horizontal blinker the generations alternate between
\* the vertical and the horizontal blinker, and run does not stop within the
\* first 10 generations.
C3_BlinkerOscillates ==
    /\ (pc \in {"compare", "done"} /\ gens <= 10) =>
          LivingNow = IF gens % 2 = 1 THEN VerticalBlinker ELSE HorizontalBlinker
    /\ pc = "done" => gens > 10

\* C4: on a grid holding only a 2 x 2 block, run performs exactly one
\* generation, which leaves every cell's alive state as it was, and stops.
C4_BlockIsStable ==
    /\ gens <= 1
    /\ pc = "hash" => gens = 0
    /\ pc \in {"compare", "done"} =>
          /\ gens = 1
          /\ Alive(board, width, height) = prev
          /\ Cardinality(LivingNow) = 4
          /\ SameDigest(old_hash, BoardRepr(board, width, height))

\* C4 witness: run has stopped after one generation, the block touching (0, 0).
C4_Witness ==
    /\ pc = "done" /\ gens = 1
    /\ LivingNow = {<<0, 0>>, <<1, 0>>, <<0, 1>>, <<1, 1>>}

\* C5: run stops after a generation iff no cell's alive state differs from
\* what it was when the generation began.
C5_StopsIffUnchanged ==
    /\ pc = "done" => Alive(board, width, height) = prev
    /\ (pc = "hash" /\ gens > 0) => Alive(board, width, height) # prev

\* C5 witness: run went on after a generation that changed a cell and stopped
\* after one that changed none, on a grid where some cell's stored coordinate
\* is not its place.
C5_Witness ==
    /\ pc = "done" /\ gens >= 2
    /\ LivingNow # {}
    /\ \E x \in 0..(width - 1), y \in 0..(height - 1) :
         <<board[y][x].x, board[y][x].y>> # <<x, y>>

\* C6: set_cell and get_living_neighbors with a coordinate outside the grid end
\* in an error and change no cell.
C6_BoundsContract ==
    [][(/\ ret'.op \in {"set_cell", "get_living_neighbors"}
        /\ ~InGrid(ret'.x, ret'.y))
       => (ret'.raised # "" /\ board' = board)]_vars

\* C7: for an argument with an in-range coordinate (x, y), the result of
\* get_living_neighbors does not hold the place (x, y) and has 0 to 8 elements.
C7_SelfExcluded ==
    (ret.op = "get_living_neighbors" /\ InGrid(ret.x, ret.y)) =>
        /\ <<ret.x, ret.y>> \notin Range(ret.value)
        /\ Len(ret.value) \in 0..8

\* A corner of the grid.
IsCorner(x, y) == x \in {0, width - 1} /\ y \in {0, height - 1}

\* C8: for an in-range query (x, y), every place counted lies in the grid and
\* within one step of (x, y), and a corner query counts at most 3 cells.
C8_EdgeClipping ==
    (ret.op = "get_living_neighbors" /\ InGrid(ret.x, ret.y)) =>
        /\ \A p \in Range(ret.value) :
              /\ InGrid(p[1], p[2])
              /\ p[1] - ret.x \in {-1, 0, 1}
              /\ p[2] - ret.y \in {-1, 0, 1}
        /\ IsCorner(ret.x, ret.y) => Len(ret.value) <= 3

\* C9: Board(w, h) fails and builds nothing iff w < 0 or h < 0; otherwise it
\* yields h rows of w cells, all dead, with both intent flags false.
C9_Construction ==
    /\ pc # "new" => (pc = "failed" <=> (args[1] < 0 \/ args[2] < 0))
    /\ pc = "failed" => (ret.raised # "" /\ board = << >>)
    /\ (pc = "ready" /\ ret.op = "Board") =>
          /\ ret.raised = ""
          /\ width = args[1] /\ height = args[2]
          /\ DOMAIN board = 0..(args[2] - 1)
          /\ \A y \in DOMAIN board :
                /\ DOMAIN board[y] = 0..(args[1] - 1)
                /\ \A x \in DOMAIN board[y] :
                      /\ ~board[y][x].alive
                      /\ ~board[y][x].will_die
                      /\ ~board[y][x].will_revive

\* C9 witness: a freshly built grid that is wider than high.
C9_Witness ==
    pc = "ready" /\ ret.op = "Board" /\ height > 0 /\ width > height

\* C10: after make_random_board(p) has visited every coordinate, each cell of
\* the board it was called on is alive iff its draw was below p, and no other
\* board was written.
C10_RandomSeeding ==
    [][(ret'.op = "make_random_board" /\ ret'.raised = "" /\ rand'.called /\ ~rand.called)
       => (/\ \A x \in 0..(width - 1), y \in 0..(height - 1) :
                board'[y][x].alive <=> rand'.r[<<x, y>>] < rand'.p
           /\ b' = b)]_vars

\* No cell alive in the alive-matrix a.
NoneAlive(a) == \A y \in DOMAIN a : \A x \in DOMAIN a[y] : ~a[y][x]

\* Both intent flags of every cell are false.
AllIntentsClear ==
    \A x \in 0..(width - 1), y \in 0..(height - 1) :
        ~board[y][x].will_die /\ ~board[y][x].will_revive

\* C11: a generation begun with no living cell leaves every cell dead with
\* both intent flags false, and run stops after it.
C11_EmptyIsFixedPoint ==
    /\ (pc \in {"draw", "compare", "done"} /\ NoneAlive(prev)) =>
          (LivingNow = {} /\ AllIntentsClear)
    /\ (pc = "compare" /\ NoneAlive(prev)) =>
          SameDigest(old_hash, BoardRepr(board, width, height))
    /\ (pc = "hash" /\ started > 0) => ~NoneAlive(prev)

\* C11 witness: run on a grid of dead cells, one of them written by set_cell,
\* has stopped after its first generation.
C11_Witness ==
    /\ pc = "done" /\ started = 1 /\ gens = 1
    /\ width > 1 /\ height > 1 /\ written # {}
    /\ LivingNow = {}

\* C12: the cell stored at place (x, y) carries the coordinate (x, y).
C12_CoordinateInvariant ==
    \A x \in 0..(width - 1), y \in 0..(height - 1) :
        board[y][x].x = x /\ board[y][x].y = y

\* C13: check_rules for the cell stored at (x, y) changes no cell stored at
\* another place.
C13_IntentLocality ==
    [][pc = "check" =>
        \A x \in 0..(width - 1), y \in 0..(height - 1) :
            <<x, y>> # <<cur % width, cur \div width>> => board'[y][x] = board[y][x]]_vars

\* C14: no cell ever has will_die and will_revive both true.
C14_IntentsExclusive ==
    \A x \in 0..(width - 1), y \in 0..(height - 1) :
        ~(board[y][x].will_die /\ board[y][x].will_revive)

\* C15: outside the scan and apply loops of run (after construction, after
\* set_cell, at the end of every apply phase) every intent flag is false.
C15_IntentsClearBetweenGenerations ==
    pc \in {"ready", "hash", "draw", "compare", "done"} => AllIntentsClear

\* C15 witness: a generation that revived one cell and killed another is over.
C15_Witness ==
    /\ pc = "compare"
    /\ \E x \in 0..(width - 1), y \in 0..(height - 1) : ~prev[y][x] /\ board[y][x].alive
    /\ \E x \in 0..(width - 1), y \in 0..(height - 1) : prev[y][x] /\ ~board[y][x].alive

\* C16: throughout the scan, and when the apply loop begins, every cell's alive
\* state is the one it had when the generation began.
C16_TwoPhase ==
    (pc = "check" \/ (pc = "apply" /\ cur = 0)) => Alive(board, width, height) = prev

\* C16 witness: the scan is over, a living cell is marked to die and a dead
\* cell is marked to revive, and neither has changed yet.
C16_Witness ==
    /\ pc = "apply" /\ cur = 0
    /\ \E x \in 0..(width - 1), y \in 0..(height - 1) :
         board[y][x].alive /\ board[y][x].will_die
    /\ \E x \in 0..(width - 1), y \in 0..(height - 1) :
         ~board[y][x].alive /\ board[y][x].will_revive

\* C17: an apply step makes its cell alive if will_revive is set, else dead if
\* will_die is set, else leaves it; it changes no other cell, no stored
\* coordinate and no dimension.
C17_ApplyPhase ==
    [][pc = "apply" =>
        LET ax == cur % width
            ay == cur \div width
        IN  /\ board'[ay][ax].alive =
                  (IF board[ay][ax].will_revive THEN TRUE
                   ELSE IF board[ay][ax].will_die THEN FALSE
                   ELSE board[ay][ax].alive)
            /\ \A x \in 0..(width - 1), y \in 0..(height - 1) :
                  /\ board'[y][x].x = board[y][x].x
                  /\ board'[y][x].y = board[y][x].y
                  /\ <<x, y>> # <<ax, ay>> => board'[y][x] = board[y][x]
            /\ width' = width /\ height' = height
            /\ DOMAIN board' = DOMAIN board]_vars

\* C17 witness: the cell at (0, 0), alive with 3 living neighbours and marked
\* both to revive (by itself) and to die (by a construction-time cell, which
\* counts 4), has been applied and is alive.
C17_Witness ==
    /\ pc = "apply" /\ cur = 1
    /\ prev[0][0] /\ LiveBefore(0, 0) = 3 /\ board[0][0].alive
    /\ \E x \in 0..(width - 1), y \in 0..(height - 1) :
         <<x, y>> # <<0, 0>> /\ <<x, y>> \notin written

\* C18: run emits the grid once per generation begun, after the apply phase
\* and before the comparison: what is compared is what was emitted, with no
\* intent left to apply.
C18_DrawOncePerGeneration ==
    /\ pc \in {"check", "apply", "draw"} => ndraw = started - 1
    /\ pc \in {"ready", "hash", "compare", "done"} => ndraw = started
    /\ pc \in {"compare", "done"} =>
          (shown = BoardRepr(board, width, height) /\ AllIntentsClear)

\* C18 witness: run has stopped after emitting a changed generation and the
\* final unchanged one, which has living cells.
C18_Witness ==
    /\ pc = "done" /\ ndraw = 2 /\ started = 2
    /\ LivingNow # {}
    /\ shown = BoardRepr(board, width, height)

====
